---- MODULE Spec2Model ----
(***************************************************************************)
(* State-machine model of the world/state engine of rust-dig               *)
(* (src/src/main.rs): the grid, the two players with their inventories,    *)
(* the bounded debug log and the debug-panel flag, driven either through   *)
(* the engine's methods (Spec) or through key events as run_app delivers   *)
(* them (SpecKeys).                                                        *)
(*                                                                         *)
(* The grid is scaled down from 60 x 30 to GAME_WIDTH x GAME_HEIGHT; the   *)
(* two Perlin noise fields are modelled as the sets of interior cells on   *)
(* which the noise exceeds its threshold, drawn from a small family.       *)
(***************************************************************************)
EXTENDS Integers, Sequences, FiniteSets, TLC

\* Grid dimensions (main.rs:20-21), scaled down.
GAME_WIDTH == 7
GAME_HEIGHT == 6
\* Numbers of move, placement and regenerate commands explored from new().
MaxMoves == 3
MaxPlaces == 1
MaxRegens == 1
\* Number of direct log_debug_message calls explored since the last clear.
MaxLogCalls == 12
\* Capacity of the debug log (main.rs:58).
LogCapacity == 10

\* players, grid, debug_log, debug_panel_enabled: the fields of GameState.
\* panicked: a bounds check or an overflow check has failed (the process is gone).
\* used: how many move, placement and regenerate commands have been issued.
\* logged: every message passed to log_debug_message since the log was last
\* empty by construction or by clear_debug_log, oldest first (history only).
VARIABLES players, grid, debug_log, debug_panel_enabled, panicked, used, logged

vars == <<players, grid, debug_log, debug_panel_enabled, panicked, used, logged>>

Rows == 0..(GAME_HEIGHT - 1)
Cols == 0..(GAME_WIDTH - 1)
PlayerIndices == {0, 1}

CellState == {"Empty", "Player1Cell", "Player2Cell", "Stone", "Water", "Wall"}

\* usize arithmetic: a negative isize/i32 cast to usize wraps to a value far
\* above any grid dimension (2^16 stands for 2^64).
UsizeModulus == 2 ^ 16
AsUsize(v) == v % UsizeModulus

\* An index pair that grid[y][x] accepts without a bounds panic.
InGrid(x, y) == x \in Cols /\ y \in Rows

\* The struct GameState as a record of the state variables.
GameState == [players |-> players, grid |-> grid, debug_log |-> debug_log,
              debug_panel_enabled |-> debug_panel_enabled, panicked |-> panicked]

\* A panic (failed bounds check or arithmetic overflow check) aborts the call.
Panic(gs) == [gs EXCEPT !.panicked = TRUE]

StoneCount(gs, i) == gs.players[i].inventory[0].item_count

PlayerCell(player_index) == IF player_index = 0 THEN "Player1Cell" ELSE "Player2Cell"

-----------------------------------------------------------------------------
\* Mutant of log_debug_message: the oldest entry goes one call too late.
log_debug_messageLate(gs, message) ==
    LET kept == IF Len(gs.debug_log) > LogCapacity
                THEN Tail(gs.debug_log)
                ELSE gs.debug_log
    IN  [gs EXCEPT !.debug_log = Append(kept, message)]

\* log_debug_message (main.rs:56-62)
log_debug_message(gs, message) ==
    LET kept == IF Len(gs.debug_log) >= LogCapacity
                THEN Tail(gs.debug_log)
                ELSE gs.debug_log
    IN  [gs EXCEPT !.debug_log = Append(kept, message)]

\* clear_debug_log (main.rs:65-67)
clear_debug_log(gs) == [gs EXCEPT !.debug_log = <<>>]

\* The format! strings of move_player and place_stone.
CollectedMessage(player_index, total) ==
    "Player " \o ToString(player_index + 1) \o " collected a stone. Total: "
        \o ToString(total)
OutOfBoundsMessage(tx, ty) ==
    "Out of bounds: (" \o ToString(tx) \o ", " \o ToString(ty) \o ")"
NotEmptyMessage(tx, ty) ==
    "Cannot place stone: Cell not empty at (" \o ToString(tx) \o ", "
        \o ToString(ty) \o ")"
NoStonesMessage(player_index) ==
    "Player " \o ToString(player_index + 1) \o " has no stones to use."
PlacedMessage(player_index, tx, ty) ==
    "Player " \o ToString(player_index + 1) \o " placed stone at ("
        \o ToString(tx) \o ", " \o ToString(ty) \o ")."
NotAdjacentMessage(player_index, tx, ty) ==
    "Placement at (" \o ToString(tx) \o ", " \o ToString(ty)
        \o ") is not adjacent to Player " \o ToString(player_index + 1) \o "."

-----------------------------------------------------------------------------
\* generate_map (main.rs:69-130)

\* The cells the two noise loops visit: 1..GAME_HEIGHT-1 x 1..GAME_WIDTH-1,
\* upper ends excluded (main.rs:85-86, 96-97).
NoiseCells == {c \in Cols \X Rows :
                 /\ c[1] >= 1 /\ c[1] < GAME_WIDTH - 1
                 /\ c[2] >= 1 /\ c[2] < GAME_HEIGHT - 1}

\* A noise field is the set of visited cells <<x, y>> whose noise value
\* exceeds the threshold.  Water noise (> 0.4) rises with x, stone noise
\* (> 0.2) rises with y; the last member of each family is the empty field.
WaterFields ==
    {{c \in NoiseCells : c[1] >= k} : k \in (GAME_WIDTH - 3)..(GAME_WIDTH - 1)}
StoneFields ==
    {{c \in NoiseCells : c[2] >= k} : k \in (GAME_HEIGHT - 3)..(GAME_HEIGHT - 1)}

\* Larger families for the study of generate_map alone: they add the field
\* that is above the threshold everywhere and fields that alternate from
\* cell to cell, so that every cell meets every combination of the two
\* threshold tests and differs from its neighbours.
GenWaterFields ==
    WaterFields \cup {NoiseCells,
                      {c \in NoiseCells : (c[1] + c[2]) % 2 = 0},
                      {c \in NoiseCells : (c[1] + c[2]) % 2 = 1}}
GenStoneFields ==
    StoneFields \cup {NoiseCells,
                      {c \in NoiseCells : c[1] % 2 = 0},
                      {c \in NoiseCells : c[2] % 2 = 1}}

\* main.rs:71
EmptyGrid == [y \in Rows |-> [x \in Cols |-> "Empty"]]

\* main.rs:74-81
AddWalls(g) ==
    [y \in Rows |-> [x \in Cols |->
        IF y = 0 \/ y = GAME_HEIGHT - 1 \/ x = 0 \/ x = GAME_WIDTH - 1
        THEN "Wall" ELSE g[y][x]]]

\* main.rs:84-92
AddWater(g, water) ==
    [y \in Rows |-> [x \in Cols |->
        IF <<x, y>> \in NoiseCells /\ <<x, y>> \in water
        THEN "Water" ELSE g[y][x]]]

\* Mutant of AddStone: the stone pass does not look at the cell first.
AddStoneAnywhere(g, stone) ==
    [y \in Rows |-> [x \in Cols |->
        IF <<x, y>> \in NoiseCells /\ <<x, y>> \in stone
        THEN "Stone" ELSE g[y][x]]]

\* main.rs:95-103
AddStone(g, stone) ==
    [y \in Rows |-> [x \in Cols |->
        IF <<x, y>> \in NoiseCells /\ <<x, y>> \in stone /\ g[y][x] = "Empty"
        THEN "Stone" ELSE g[y][x]]]

\* main.rs:107-117: the (dy, dx) pairs
offsets == {<<0, 0>>, <<-1, 0>>, <<1, 0>>, <<0, -1>>, <<0, 1>>,
            <<-1, -1>>, <<1, -1>>, <<-1, 1>>, <<1, 1>>}

\* main.rs:121
CarveCheck(ny, nx) == ny > 0 /\ ny < GAME_HEIGHT /\ nx > 0 /\ nx < GAME_WIDTH

\* main.rs:119-120
CarveTargets(ps) ==
    {<<AsUsize(ps[i].x + o[2]), AsUsize(ps[i].y + o[1])>> :
        i \in PlayerIndices, o \in offsets}

\* Mutant of ClearPlayerArea: the diagonal offsets are left out.
ClearPlayerAreaOrthogonal(g, ps) ==
    LET targets == {<<AsUsize(ps[i].x + o[2]), AsUsize(ps[i].y + o[1])>> :
                      i \in PlayerIndices,
                      o \in {<<0, 0>>, <<-1, 0>>, <<1, 0>>, <<0, -1>>, <<0, 1>>}}
    IN  [y \in Rows |-> [x \in Cols |->
            IF <<x, y>> \in targets /\ CarveCheck(y, x)
            THEN "Empty" ELSE g[y][x]]]

\* main.rs:106-125
ClearPlayerArea(g, ps) ==
    LET targets == CarveTargets(ps)
    IN  [y \in Rows |-> [x \in Cols |->
            IF <<x, y>> \in targets /\ CarveCheck(y, x)
            THEN "Empty" ELSE g[y][x]]]

\* main.rs:128-129
PlacePlayers(g, ps) ==
    LET g1 == [g EXCEPT ![ps[0].y][ps[0].x] = "Player1Cell"]
    IN  [g1 EXCEPT ![ps[1].y][ps[1].x] = "Player2Cell"]

\* An index of generate_map that the array rejects (main.rs:122, 128, 129).
GenerateMapIndexPanics(ps) ==
    \/ \E c \in CarveTargets(ps) : CarveCheck(c[2], c[1]) /\ ~InGrid(c[1], c[2])
    \/ \E i \in PlayerIndices : ~InGrid(ps[i].x, ps[i].y)

\* main.rs:71-103: the grid before the players are looked at, for every pair
\* of noise fields.
Terrain ==
    [water \in GenWaterFields, stone \in GenStoneFields |->
        AddStone(AddWater(AddWalls(EmptyGrid), water), stone)]

generate_map(gs, water, stone) ==
    IF GenerateMapIndexPanics(gs.players)
    THEN Panic(gs)
    ELSE [gs EXCEPT !.grid =
            PlacePlayers(ClearPlayerArea(Terrain[water, stone], gs.players),
                         gs.players)]

-----------------------------------------------------------------------------
\* new (main.rs:133-161)
NewInventory ==
    [k \in {0, 1} |->
        IF k = 0 THEN [item_id |-> 1, item_name |-> "Stone", item_count |-> 0]
                 ELSE [item_id |-> 2, item_name |-> "Wood", item_count |-> 0]]

NewPlayers ==
    [i \in PlayerIndices |->
        IF i = 0 THEN [player_id |-> 1, x |-> 2, y |-> 2, inventory |-> NewInventory]
                 ELSE [player_id |-> 2, x |-> GAME_WIDTH - 3, y |-> GAME_HEIGHT - 3,
                       inventory |-> NewInventory]]

new(water, stone) ==
    generate_map([players |-> NewPlayers, grid |-> EmptyGrid, debug_log |-> <<>>,
                  debug_panel_enabled |-> FALSE, panicked |-> FALSE],
                 water, stone)

\* Mutant of ResetInventories: the Stone counters survive a regeneration.
ResetInventoriesNone(ps) == ps

\* regenerate_game_state (main.rs:164-171)
ResetInventories(ps) ==
    [i \in PlayerIndices |-> [ps[i] EXCEPT !.inventory[0].item_count = 0]]

regenerate_game_state(gs, water, stone) ==
    generate_map([gs EXCEPT !.players = ResetInventories(gs.players)], water, stone)

-----------------------------------------------------------------------------
\* move_player (main.rs:240-276)

\* Mutant of MoveGuard: the upper limits admit the last column and row.
MoveGuardInclusive(new_x, new_y) ==
    new_x > 0 /\ new_y > 0 /\ new_x <= GAME_WIDTH - 1 /\ new_y <= GAME_HEIGHT - 1

\* main.rs:244
MoveGuard(new_x, new_y) ==
    new_x > 0 /\ new_y > 0 /\ new_x < GAME_WIDTH - 1 /\ new_y < GAME_HEIGHT - 1

\* Mutant of Relocate: the old cell is not vacated.
RelocateKeepOld(gs, player_index, new_x, new_y) ==
    [gs EXCEPT !.grid[new_y][new_x] = PlayerCell(player_index),
               !.players[player_index].x = new_x,
               !.players[player_index].y = new_y]

\* main.rs:247-254 and 259-266: vacate the old cell, store the position,
\* stamp the slot.
Relocate(gs, player_index, new_x, new_y) ==
    LET p  == gs.players[player_index]
        g1 == [gs.grid EXCEPT ![p.y][p.x] = "Empty"]
    IN  [gs EXCEPT !.grid = [g1 EXCEPT ![new_y][new_x] = PlayerCell(player_index)],
                   !.players[player_index].x = new_x,
                   !.players[player_index].y = new_y]

\* Mutant of CollectStone: the counter is not incremented.
CollectStoneKeepCount(gs, player_index, new_x, new_y) ==
    [gs EXCEPT !.grid[new_y][new_x] = "Empty"]

\* main.rs:257-258
CollectStone(gs, player_index, new_x, new_y) ==
    [gs EXCEPT !.players[player_index].inventory[0].item_count = @ + 1,
               !.grid[new_y][new_x] = "Empty"]

\* Mutant of MatchCell: the Empty arm is merged into the Stone arm.
MatchCellMergedArms(gs, player_index, new_x, new_y) ==
    IF gs.grid[new_y][new_x] \in {"Empty", "Stone"}
    THEN LET moved == Relocate(CollectStone(gs, player_index, new_x, new_y),
                               player_index, new_x, new_y)
         IN  log_debug_message(moved,
                 CollectedMessage(player_index, StoneCount(moved, player_index)))
    ELSE gs

\* Mutant of MatchCell: Water is walked into like Empty.
MatchCellWadesWater(gs, player_index, new_x, new_y) ==
    IF gs.grid[new_y][new_x] \in {"Empty", "Water"}
    THEN Relocate(gs, player_index, new_x, new_y)
    ELSE IF gs.grid[new_y][new_x] = "Stone"
    THEN LET moved == Relocate(CollectStone(gs, player_index, new_x, new_y),
                               player_index, new_x, new_y)
         IN  log_debug_message(moved,
                 CollectedMessage(player_index, StoneCount(moved, player_index)))
    ELSE gs

\* main.rs:245-274: the match on the candidate cell
MatchCell(gs, player_index, new_x, new_y) ==
    IF gs.grid[new_y][new_x] = "Empty"
    THEN Relocate(gs, player_index, new_x, new_y)
    ELSE IF gs.grid[new_y][new_x] = "Stone"
    THEN LET moved == Relocate(CollectStone(gs, player_index, new_x, new_y),
                               player_index, new_x, new_y)
         IN  log_debug_message(moved,
                 CollectedMessage(player_index, StoneCount(moved, player_index)))
    ELSE gs

move_player(gs, dx, dy, player_index) ==
    LET new_x == AsUsize(gs.players[player_index].x + dx)
        new_y == AsUsize(gs.players[player_index].y + dy)
    IN  IF ~MoveGuard(new_x, new_y) THEN gs
        ELSE IF ~InGrid(new_x, new_y) THEN Panic(gs)
        ELSE MatchCell(gs, player_index, new_x, new_y)

-----------------------------------------------------------------------------
\* place_stone (main.rs:278-315)

\* main.rs:282
TargetOutOfBounds(tx, ty) == tx >= GAME_WIDTH \/ ty >= GAME_HEIGHT

\* Mutant of TargetOccupied: only Wall blocks a placement.
TargetOccupiedWallOnly(cell) == cell = "Wall"

\* main.rs:287
TargetOccupied(cell) == cell # "Empty"

\* Mutant of NoStones: strict comparison, never true of a usize.
NoStonesStrict(item_count) == item_count < 0

\* main.rs:292
NoStones(item_count) == item_count <= 0

\* Mutant of Adjacent: the four orthogonal neighbours and the own cell only.
AdjacentOrthogonal(tx, ty, x, y) ==
    LET ax == IF tx - x < 0 THEN x - tx ELSE tx - x
        ay == IF ty - y < 0 THEN y - ty ELSE ty - y
    IN  ax + ay <= 1

\* main.rs:300
Adjacent(tx, ty, x, y) ==
    LET ax == IF tx - x < 0 THEN x - tx ELSE tx - x
        ay == IF ty - y < 0 THEN y - ty ELSE ty - y
    IN  ax <= 1 /\ ay <= 1

\* Mutant of PutStone: the placed stone is not taken from the inventory.
PutStoneFree(gs, tx, ty, player_index) ==
    log_debug_message([gs EXCEPT !.grid[ty][tx] = "Stone"],
                      PlacedMessage(player_index, tx, ty))

\* main.rs:301-308
PutStone(gs, tx, ty, player_index) ==
    IF StoneCount(gs, player_index) - 1 < 0
    THEN Panic([gs EXCEPT !.grid[ty][tx] = "Stone"])
    ELSE log_debug_message(
            [gs EXCEPT !.grid[ty][tx] = "Stone",
                       !.players[player_index].inventory[0].item_count = @ - 1],
            PlacedMessage(player_index, tx, ty))

\* Mutant of place_stone: the inventory is checked before the target cell.
place_stoneInventoryFirst(gs, tx, ty, player_index) ==
    LET x == gs.players[player_index].x
        y == gs.players[player_index].y
    IN  IF TargetOutOfBounds(tx, ty)
        THEN log_debug_message(gs, OutOfBoundsMessage(tx, ty))
        ELSE IF ~InGrid(tx, ty) THEN Panic(gs)
        ELSE IF NoStones(StoneCount(gs, player_index))
        THEN log_debug_message(gs, NoStonesMessage(player_index))
        ELSE IF TargetOccupied(gs.grid[ty][tx])
        THEN log_debug_message(gs, NotEmptyMessage(tx, ty))
        ELSE IF Adjacent(tx, ty, x, y)
        THEN PutStone(gs, tx, ty, player_index)
        ELSE log_debug_message(gs, NotAdjacentMessage(player_index, tx, ty))

place_stone(gs, tx, ty, player_index) ==
    LET x == gs.players[player_index].x
        y == gs.players[player_index].y
    IN  IF TargetOutOfBounds(tx, ty)
        THEN log_debug_message(gs, OutOfBoundsMessage(tx, ty))
        ELSE IF ~InGrid(tx, ty) THEN Panic(gs)
        ELSE IF TargetOccupied(gs.grid[ty][tx])
        THEN log_debug_message(gs, NotEmptyMessage(tx, ty))
        ELSE IF NoStones(StoneCount(gs, player_index))
        THEN log_debug_message(gs, NoStonesMessage(player_index))
        ELSE IF Adjacent(tx, ty, x, y)
        THEN PutStone(gs, tx, ty, player_index)
        ELSE log_debug_message(gs, NotAdjacentMessage(player_index, tx, ty))

-----------------------------------------------------------------------------
\* handle_input (main.rs:174-237)

MovementKeys == {"w", "s", "a", "d", "Up", "Down", "Left", "Right"}
KeyCodes == MovementKeys \cup {"x"}
KeyModifierSets == SUBSET {"ALT", "CONTROL"}

\* The player a movement key belongs to and its unit step <<dx, dy>>.
KeyPlayer(code) == IF code \in {"w", "s", "a", "d"} THEN 0 ELSE 1
KeyStep(code) ==
    CASE code \in {"w", "Up"}    -> <<0, -1>>
      [] code \in {"s", "Down"}  -> <<0, 1>>
      [] code \in {"a", "Left"}  -> <<-1, 0>>
      [] code \in {"d", "Right"} -> <<1, 0>>

\* main.rs:175-176
KeyPlaces(code, modifiers) ==
    IF KeyPlayer(code) = 0 THEN "ALT" \in modifiers ELSE "CONTROL" \in modifiers

\* Mutant of PlaceTowards: the target lies two cells away from the player.
PlaceTowardsTwoCells(gs, player_index, step) ==
    LET tx == gs.players[player_index].x + 2 * step[1]
        ty == gs.players[player_index].y + 2 * step[2]
    IN  IF tx < 0 \/ ty < 0 THEN Panic(gs)
        ELSE place_stone(gs, tx, ty, player_index)

\* The placement call of a key arm, e.g. main.rs:181: the target is computed
\* in usize, so x - 1 or y - 1 below zero is an overflow panic.
PlaceTowards(gs, player_index, step) ==
    LET tx == gs.players[player_index].x + step[1]
        ty == gs.players[player_index].y + step[2]
    IN  IF tx < 0 \/ ty < 0 THEN Panic(gs)
        ELSE place_stone(gs, tx, ty, player_index)

handle_input(gs, code, modifiers) ==
    IF code \notin MovementKeys THEN gs
    ELSE IF KeyPlaces(code, modifiers)
         THEN PlaceTowards(gs, KeyPlayer(code), KeyStep(code))
         ELSE move_player(gs, KeyStep(code)[1], KeyStep(code)[2], KeyPlayer(code))

-----------------------------------------------------------------------------
\* The state machine

\* The state after the call returned gs; kind is the command counted.  A
\* command logs at most one message, and the log is far from full when it
\* does, so a changed log has gained its last entry.
Becomes(gs, kind) ==
    /\ players' = gs.players
    /\ grid' = gs.grid
    /\ debug_log' = gs.debug_log
    /\ debug_panel_enabled' = gs.debug_panel_enabled
    /\ panicked' = gs.panicked
    /\ used' = IF kind = "none" THEN used ELSE [used EXCEPT ![kind] = @ + 1]
    /\ logged' = IF gs.debug_log = debug_log THEN logged
                 ELSE Append(logged, gs.debug_log[Len(gs.debug_log)])

\* The loop of run_app is alive ('q' leaves it without touching the state
\* and is not modelled).
Running == ~panicked
MayMove == Running /\ used["move"] < MaxMoves
MayPlace == Running /\ used["place"] < MaxPlaces
MayRegenerate == Running /\ used["regen"] < MaxRegens

Init ==
    \E water \in WaterFields, stone \in StoneFields :
        LET gs == new(water, stone)
        IN  /\ players = gs.players
            /\ grid = gs.grid
            /\ debug_log = gs.debug_log
            /\ debug_panel_enabled = gs.debug_panel_enabled
            /\ panicked = gs.panicked
            /\ used = [kind \in {"move", "place", "regen"} |-> 0]
            /\ logged = <<>>

UnitSteps == {<<0, -1>>, <<0, 1>>, <<-1, 0>>, <<1, 0>>}

\* Targets a caller of place_stone passes: the usize pairs up to one cell
\* before and two cells beyond the player in each direction.
PlaceTargets(player_index) ==
    {t \in {<<players[player_index].x + dx, players[player_index].y + dy>> :
               dx \in {-1, 0, 1, 2}, dy \in {-1, 0, 1, 2}} :
        t[1] >= 0 /\ t[2] >= 0}

MovePlayer(player_index, dx, dy) ==
    /\ MayMove
    /\ Becomes(move_player(GameState, dx, dy, player_index), "move")

PlaceStone(player_index, tx, ty) ==
    /\ MayPlace
    /\ Becomes(place_stone(GameState, tx, ty, player_index), "place")

Regenerate(water, stone) ==
    /\ MayRegenerate
    /\ Becomes(regenerate_game_state(GameState, water, stone), "regen")

\* Mutant of FlipPanel: hiding or showing the panel also empties the log.
FlipPanelClearsLog(gs) ==
    [gs EXCEPT !.debug_panel_enabled = ~gs.debug_panel_enabled, !.debug_log = <<>>]

\* main.rs:353
FlipPanel(gs) == [gs EXCEPT !.debug_panel_enabled = ~gs.debug_panel_enabled]

TogglePanel ==
    /\ Running
    /\ Becomes(FlipPanel(GameState), "none")

KeyKind(code, modifiers) ==
    IF code \notin MovementKeys THEN "none"
    ELSE IF KeyPlaces(code, modifiers) THEN "place" ELSE "move"

HandleInput(code, modifiers) ==
    /\ Running
    /\ KeyKind(code, modifiers) = "move" => MayMove
    /\ KeyKind(code, modifiers) = "place" => MayPlace
    /\ Becomes(handle_input(GameState, code, modifiers), KeyKind(code, modifiers))

Next ==
    \/ \E i \in PlayerIndices, d \in UnitSteps : MovePlayer(i, d[1], d[2])
    \/ \E i \in PlayerIndices : \E t \in PlaceTargets(i) : PlaceStone(i, t[1], t[2])
    \/ \E water \in WaterFields, stone \in StoneFields : Regenerate(water, stone)
    \/ TogglePanel

Spec == Init /\ [][Next]_vars

\* run_app (main.rs:345-358): one key press per loop iteration.
KeyPress ==
    \/ \E water \in WaterFields, stone \in StoneFields : Regenerate(water, stone)
    \/ TogglePanel
    \/ \E code \in KeyCodes, modifiers \in KeyModifierSets : HandleInput(code, modifiers)

SpecKeys == Init /\ [][KeyPress]_vars

\* generate_map under the larger noise families, called by new and by
\* regenerate_game_state after the players have moved.
InitGen ==
    \E water \in GenWaterFields, stone \in GenStoneFields :
        LET gs == new(water, stone)
        IN  /\ players = gs.players
            /\ grid = gs.grid
            /\ debug_log = gs.debug_log
            /\ debug_panel_enabled = gs.debug_panel_enabled
            /\ panicked = gs.panicked
            /\ used = [kind \in {"move", "place", "regen"} |-> 0]
            /\ logged = <<>>

NextGen ==
    \/ \E i \in PlayerIndices, d \in UnitSteps : MovePlayer(i, d[1], d[2])
    \/ \E water \in GenWaterFields, stone \in GenStoneFields : Regenerate(water, stone)

SpecGen == InitGen /\ [][NextGen]_vars

\* The debug log driven directly: log_debug_message with either of two
\* messages, and clear_debug_log.
LogInputs == {NoStonesMessage(0), NoStonesMessage(1)}

LogDebugMessage(message) ==
    /\ Running
    /\ Len(logged) < MaxLogCalls
    /\ debug_log' = log_debug_message(GameState, message).debug_log
    /\ logged' = Append(logged, message)
    /\ UNCHANGED <<players, grid, debug_panel_enabled, panicked, used>>

ClearDebugLog ==
    /\ Running
    /\ debug_log' = clear_debug_log(GameState).debug_log
    /\ logged' = <<>>
    /\ UNCHANGED <<players, grid, debug_panel_enabled, panicked, used>>

LogNext ==
    \/ \E message \in LogInputs : LogDebugMessage(message)
    \/ ClearDebugLog

SpecLog == Init /\ [][LogNext]_vars

-----------------------------------------------------------------------------
\* Properties

Border(x, y) == y = 0 \/ y = GAME_HEIGHT - 1 \/ x = 0 \/ x = GAME_WIDTH - 1

BorderAllWall(g) ==
    \A y \in Rows, x \in Cols : Border(x, y) => g[y][x] = "Wall"

ActorSlots == {"Player1Cell", "Player2Cell"}

Position(ps, i) == <<ps[i].x, ps[i].y>>

\* The 3x3 neighbourhood of player i, as <<x, y>> pairs.
Neighbourhood(ps, i) ==
    {<<ps[i].x + dx, ps[i].y + dy>> : dx \in {-1, 0, 1}, dy \in {-1, 0, 1}}

\* A step that is a call of regenerate_game_state: the only command counted
\* under "regen".
AnyRegenerate == used'["regen"] = used["regen"] + 1

\* C1 (fails on the code): after new() and after every regenerate, every
\* border cell (row 0, row GAME_HEIGHT-1, column 0, column GAME_WIDTH-1) is Wall.
C1_BorderWallAfterGenerate ==
    /\ BorderAllWall(grid)
    /\ [][AnyRegenerate => BorderAllWall(grid')]_vars

\* Every cell of every player's 3x3 neighbourhood is in the grid, holds no
\* Water, Stone or Wall, and the only actor slot among them is the player's own.
NeighbourhoodClear(g, ps) ==
    \A i \in PlayerIndices :
        /\ g[ps[i].y][ps[i].x] = PlayerCell(i)
        /\ \A c \in Neighbourhood(ps, i) :
              /\ InGrid(c[1], c[2])
              /\ g[c[2]][c[1]] \notin {"Water", "Stone", "Wall"}
              /\ g[c[2]][c[1]] \in ActorSlots => c = Position(ps, i)

\* C2 as claimed (fails): after new() and after every regenerate, each player's
\* 3x3 neighbourhood holds no Water, Stone or Wall and exactly one actor slot,
\* the player's own.
C2_NeighbourhoodClearAsClaimed ==
    /\ NeighbourhoodClear(grid, players)
    /\ [][AnyRegenerate => NeighbourhoodClear(grid', players')]_vars

\* The same with the wall ring and the other player allowed for.
NeighbourhoodCarved(g, ps) ==
    \A i \in PlayerIndices :
        /\ g[ps[i].y][ps[i].x] = PlayerCell(i)
        /\ \A c \in Neighbourhood(ps, i) :
              /\ InGrid(c[1], c[2])
              /\ g[c[2]][c[1]] \notin {"Water", "Stone"}
              /\ g[c[2]][c[1]] = "Wall" => Border(c[1], c[2])
              /\ g[c[2]][c[1]] \in ActorSlots
                    <=> \E j \in PlayerIndices : c = Position(ps, j)

\* C2 (amended): after new() and after every regenerate, each player's 3x3
\* neighbourhood holds no Water and no Stone, holds Wall only on cells of the
\* border ring, and its actor slots are exactly the positions of the players
\* inside it (the player's own cell holding the player's own slot).
C2_NeighbourhoodCarved ==
    /\ NeighbourhoodCarved(grid, players)
    /\ [][AnyRegenerate => NeighbourhoodCarved(grid', players')]_vars

\* Witness for C2: a regenerate has run with player 1 next to the left wall
\* and player 2 inside player 1's neighbourhood.
C2_Witness ==
    /\ used["regen"] = 1
    /\ used["move"] = MaxMoves
    /\ players[0].x = 1
    /\ Position(players, 1) \in Neighbourhood(players, 0)
    /\ grid[players[0].y][0] = "Wall"
    /\ \E y \in Rows, x \in Cols : grid[y][x] \in {"Water", "Stone"}

\* C3: in every reachable state the cells holding an actor slot are exactly the
\* players' positions, each with its own variant, and the two positions differ.
C3_ActorCellsMatchPositions ==
    /\ Position(players, 0) # Position(players, 1)
    /\ \A y \in Rows, x \in Cols :
          /\ grid[y][x] = "Player1Cell" <=> <<x, y>> = Position(players, 0)
          /\ grid[y][x] = "Player2Cell" <=> <<x, y>> = Position(players, 1)

\* Witness for C3: both players have left their starting cells, a stone was
\* collected and placed again, and the map was regenerated.
C3_Witness ==
    /\ Position(players, 0) # Position(NewPlayers, 0)
    /\ Position(players, 1) # Position(NewPlayers, 1)
    /\ used["regen"] = 1
    /\ Len(debug_log) = 2
    /\ \E y \in Rows, x \in Cols : debug_log[2] = PlacedMessage(1, x, y)

\* C4: in every reachable state each player's position is in the open
\* interior: 1 <= x <= GAME_WIDTH-2 and 1 <= y <= GAME_HEIGHT-2.
C4_PlayersInInterior ==
    \A i \in PlayerIndices :
        /\ 1 <= players[i].x /\ players[i].x <= GAME_WIDTH - 2
        /\ 1 <= players[i].y /\ players[i].y <= GAME_HEIGHT - 2

\* Witness for C4: player 2 stands in the bottom-right interior corner, the
\* border cells next to it were opened by a regenerate, and every move is spent.
C4_Witness ==
    /\ Position(players, 1) = <<GAME_WIDTH - 2, GAME_HEIGHT - 2>>
    /\ used["regen"] = 1
    /\ used["move"] = MaxMoves
    /\ grid[GAME_HEIGHT - 1][GAME_WIDTH - 2] = "Empty"
    /\ grid[GAME_HEIGHT - 2][GAME_WIDTH - 1] = "Empty"

\* C5: under key input no operation panics: no usize subtraction goes below
\* zero (placement targets x-1 / y-1, the Stone counter) and no grid index is
\* outside the array.
C5_NoPanic == ~panicked

\* Witness for C5: player 1 stands in column 1 and a placement towards the
\* left wall (target x - 1 = 0) has been answered.
C5_Witness ==
    /\ players[0].x = 1
    /\ Len(debug_log) = 1
    /\ debug_log[1] = NotEmptyMessage(0, players[0].y)

\* The cell a unit step d = <<dx, dy>> of player p leads to.
Candidate(p, d) == <<players[p].x + d[1], players[p].y + d[2]>>

InInterior(c) ==
    /\ 1 <= c[1] /\ c[1] <= GAME_WIDTH - 2
    /\ 1 <= c[2] /\ c[2] <= GAME_HEIGHT - 2

Other(p) == 1 - p

\* after is before with exactly one entry, message, appended (the oldest
\* entry making room when before is full).
OneAppended(before, after, message) ==
    after = Append(IF Len(before) >= LogCapacity THEN Tail(before) ELSE before,
                   message)

\* Player p moved to cell c and nothing else about the players changed,
\* except that p's Stone counter grew by gain.
MovedTo(p, c, gain) ==
    players' = [players EXCEPT ![p].x = c[1], ![p].y = c[2],
                               ![p].inventory[0].item_count = @ + gain]

\* The grid after player p left its cell for cell c.
GridAfterMove(p, c) ==
    [[grid EXCEPT ![players[p].y][players[p].x] = "Empty"]
        EXCEPT ![c[2]][c[1]] = PlayerCell(p)]

\* C6: move_player by a unit step into an interior Empty cell: the player's
\* position becomes the candidate, the old cell becomes Empty, the candidate
\* cell becomes the player's slot, and every other cell, the other player,
\* both inventories, the debug log and the panel flag are unchanged.
C6_MoveIntoEmpty ==
    [][\A p \in PlayerIndices, d \in UnitSteps :
          (/\ MovePlayer(p, d[1], d[2])
           /\ InInterior(Candidate(p, d))
           /\ grid[Candidate(p, d)[2]][Candidate(p, d)[1]] = "Empty")
          => /\ MovedTo(p, Candidate(p, d), 0)
             /\ grid' = GridAfterMove(p, Candidate(p, d))
             /\ debug_log' = debug_log
             /\ debug_panel_enabled' = debug_panel_enabled
             /\ ~panicked']_vars

\* Witness for C6: one move was made, it took player 1 from (2, 2) to the
\* Empty cell on its right, and nothing was logged or collected.
C6_Witness ==
    /\ used = [kind \in {"move", "place", "regen"} |-> IF kind = "move" THEN 1 ELSE 0]
    /\ Position(players, 0) = <<3, 2>>
    /\ grid[2][2] = "Empty" /\ grid[2][3] = "Player1Cell"
    /\ debug_log = <<>>
    /\ StoneCount(GameState, 0) = 0

\* C7: move_player by a unit step into an interior Stone cell: the mover's
\* Stone counter grows by exactly 1, the player relocates (old cell Empty,
\* candidate cell its slot), exactly one entry naming the player's number and
\* the new total is appended to the debug log, and the other player and all
\* other cells are unchanged.
C7_MoveIntoStone ==
    [][\A p \in PlayerIndices, d \in UnitSteps :
          (/\ MovePlayer(p, d[1], d[2])
           /\ InInterior(Candidate(p, d))
           /\ grid[Candidate(p, d)[2]][Candidate(p, d)[1]] = "Stone")
          => /\ MovedTo(p, Candidate(p, d), 1)
             /\ grid' = GridAfterMove(p, Candidate(p, d))
             /\ OneAppended(debug_log, debug_log',
                    CollectedMessage(p, players[p].inventory[0].item_count + 1))
             /\ debug_panel_enabled' = debug_panel_enabled
             /\ ~panicked']_vars

\* Witness for C7: player 1 walked down onto a Stone cell of the initial map.
C7_Witness ==
    /\ used["regen"] = 0 /\ used["place"] = 0
    /\ Position(players, 0) = <<2, GAME_HEIGHT - 2>>
    /\ StoneCount(GameState, 0) = 1
    /\ StoneCount(GameState, 1) = 0
    /\ debug_log = <<"Player 1 collected a stone. Total: 1">>

\* C8: move_player is a no-op whenever the candidate cell is outside the open
\* interior or holds Water, Wall or the other player's slot: grid, positions,
\* inventories and debug log are the same before and after.
C8_BlockedMoveIsNoOp ==
    [][\A p \in PlayerIndices, d \in UnitSteps :
          (/\ MovePlayer(p, d[1], d[2])
           /\ \/ ~InInterior(Candidate(p, d))
              \/ grid[Candidate(p, d)[2]][Candidate(p, d)[1]]
                    \in {"Water", "Wall", PlayerCell(Other(p))})
          => /\ UNCHANGED <<players, grid, debug_log, debug_panel_enabled>>
             /\ ~panicked']_vars

\* Witness for C8: two moves were made and player 2 is one cell above its
\* start with Water above it, player 1 still at its start: the second move
\* ran into the Water.
C8_Witness ==
    /\ used = [kind \in {"move", "place", "regen"} |-> IF kind = "move" THEN 2 ELSE 0]
    /\ Position(players, 0) = Position(NewPlayers, 0)
    /\ Position(players, 1) = <<GAME_WIDTH - 3, GAME_HEIGHT - 4>>
    /\ grid[GAME_HEIGHT - 5][GAME_WIDTH - 3] = "Water"

Chebyshev(a, b) ==
    LET ax == IF a[1] < b[1] THEN b[1] - a[1] ELSE a[1] - b[1]
        ay == IF a[2] < b[2] THEN b[2] - a[2] ELSE a[2] - b[2]
    IN  IF ax < ay THEN ay ELSE ax

\* C9: place_stone succeeds for every player with Stone count >= 1 and every
\* in-grid Empty target within Chebyshev distance 1 of the player: the target
\* becomes Stone, the player's Stone counter drops by exactly 1, exactly one
\* entry is appended to the log, and positions, the other player's inventory
\* and all other cells are unchanged.
C9_PlaceSucceeds ==
    [][\A p \in PlayerIndices : \A t \in PlaceTargets(p) :
          (/\ PlaceStone(p, t[1], t[2])
           /\ InGrid(t[1], t[2])
           /\ grid[t[2]][t[1]] = "Empty"
           /\ players[p].inventory[0].item_count >= 1
           /\ Chebyshev(t, Position(players, p)) <= 1)
          => /\ grid' = [grid EXCEPT ![t[2]][t[1]] = "Stone"]
             /\ players' = [players EXCEPT ![p].inventory[0].item_count = @ - 1]
             /\ OneAppended(debug_log, debug_log', PlacedMessage(p, t[1], t[2]))
             /\ debug_panel_enabled' = debug_panel_enabled
             /\ ~panicked']_vars

\* Witness for C9: player 1 collected the stone at (2, 4) and placed it on the
\* diagonal neighbour (3, 3).
C9_Witness ==
    /\ Position(players, 0) = <<2, 4>>
    /\ grid[3][3] = "Stone"
    /\ StoneCount(GameState, 0) = 0
    /\ debug_log = <<"Player 1 collected a stone. Total: 1",
                     "Player 1 placed stone at (3, 3).">>

\* C10: every failing place_stone call (target outside the grid, target cell
\* not Empty, Stone count 0, or target farther than Chebyshev distance 1)
\* appends exactly one entry to the debug log and leaves the grid, both
\* positions and both inventories unchanged.
C10_PlaceFailureOnlyLogs ==
    [][\A p \in PlayerIndices : \A t \in PlaceTargets(p) :
          (/\ PlaceStone(p, t[1], t[2])
           /\ \/ ~InGrid(t[1], t[2])
              \/ grid[t[2]][t[1]] # "Empty"
              \/ players[p].inventory[0].item_count = 0
              \/ Chebyshev(t, Position(players, p)) > 1)
          => /\ UNCHANGED <<grid, players, debug_panel_enabled>>
             /\ Len(debug_log') >= 1
             /\ OneAppended(debug_log, debug_log', debug_log'[Len(debug_log')])
             /\ ~panicked']_vars

\* Witness for C10: player 1, holding one stone at (2, 4), was refused the
\* Empty target two cells to its right.
C10_Witness ==
    /\ Position(players, 0) = <<2, 4>>
    /\ StoneCount(GameState, 0) = 1
    /\ grid[4][4] = "Empty"
    /\ debug_log = <<"Player 1 collected a stone. Total: 1",
                     "Placement at (4, 4) is not adjacent to Player 1.">>

Min(a, b) == IF a < b THEN a ELSE b

\* The last n entries of sequence s (all of s when it has fewer).
LastEntries(s, n) == SubSeq(s, Len(s) - Min(Len(s), n) + 1, Len(s))

\* C11: the debug log is a strict FIFO of capacity 10: it never holds more
\* than 10 entries, and after n log_debug_message calls with no clear it is
\* the last min(n, 10) of the messages passed, in their original order.
C11_LogIsBoundedFifo ==
    /\ Len(debug_log) <= 10
    /\ debug_log = LastEntries(logged, 10)

\* Witness for C11: 11 calls were made since the log was empty, the first two
\* with different messages; the first message is gone, the other 10 remain.
C11_Witness ==
    /\ Len(logged) = 11
    /\ logged[1] # logged[2]
    /\ Len(debug_log) = 10
    /\ debug_log = Tail(logged)

\* C12: regenerate from any reachable state leaves every actor's position
\* and id unchanged, sets every actor's Stone counter to 0, and leaves every
\* other inventory slot (Wood), the debug log and the panel flag unchanged.
C12_RegenerateFrame ==
    [][AnyRegenerate =>
        /\ \A i \in PlayerIndices :
            /\ Position(players', i) = Position(players, i)
            /\ players'[i].player_id = players[i].player_id
            /\ players'[i].inventory[0] =
                   [players[i].inventory[0] EXCEPT !.item_count = 0]
            /\ players'[i].inventory[1] = players[i].inventory[1]
        /\ debug_log' = debug_log
        /\ debug_panel_enabled' = debug_panel_enabled]_vars

\* Witness for C12: player 1 had collected a stone (the log still says so)
\* and has left its start cell, the panel is on, and a regeneration has since put the counter back to 0.
C12_Witness ==
    /\ used["regen"] = 1
    /\ used["place"] = 0
    /\ debug_log = <<CollectedMessage(0, 1)>>
    /\ StoneCount(GameState, 0) = 0
    /\ Position(players, 0) # Position(NewPlayers, 0)
    /\ debug_panel_enabled

\* The flag is not changed by the call that returned after, and the call
\* made with the flag flipped returns the same state with the flag flipped.
FlagBlind(after, afterFlipped) ==
    /\ after.debug_panel_enabled = debug_panel_enabled
    /\ afterFlipped = FlipPanel(after)

\* Checked from the states with the panel off against their twins with the
\* panel on: a toggle is always possible, so the reachable states come in
\* such pairs, and the comparison is symmetric in the two.  Regeneration is
\* compared in the states where the regenerate command is still explored.
CommandsFlagBlind ==
    ~debug_panel_enabled =>
    /\ \A p \in PlayerIndices, d \in UnitSteps :
        FlagBlind(move_player(GameState, d[1], d[2], p),
                  move_player(FlipPanel(GameState), d[1], d[2], p))
    /\ \A p \in PlayerIndices : \A t \in PlaceTargets(p) :
        FlagBlind(place_stone(GameState, t[1], t[2], p),
                  place_stone(FlipPanel(GameState), t[1], t[2], p))
    /\ MayRegenerate => \A water \in WaterFields, stone \in StoneFields :
        FlagBlind(regenerate_game_state(GameState, water, stone),
                  regenerate_game_state(FlipPanel(GameState), water, stone))

\* C13: toggling the debug panel flips debug_panel_enabled and changes
\* nothing else (grid, actors, inventories, log); toggling twice restores
\* the original state; the outcome of every move, place and regenerate
\* command is independent of the flag, and none of them changes the flag.
C13_ToggleOnlyFlipsFlag ==
    /\ [][TogglePanel =>
            /\ debug_panel_enabled' = ~debug_panel_enabled
            /\ UNCHANGED <<players, grid, debug_log, panicked>>]_vars
    /\ [](FlipPanel(FlipPanel(GameState)) = GameState)
    /\ []CommandsFlagBlind

\* Witness for C13: the panel was switched on after player 1 collected a
\* stone and placed it again, so grid, inventories and log all differ from
\* the state after new().
C13_Witness ==
    /\ debug_panel_enabled
    /\ Len(debug_log) = 2
    /\ used["move"] > 0
    /\ used["place"] = 1
    /\ \E y \in Rows, x \in Cols : debug_log[2] = PlacedMessage(0, x, y)

LastLogged(log) == log[Len(log)]

\* C14: place_stone applies its checks in the order bounds, occupancy,
\* inventory, adjacency and reports only the first that fails: a target
\* outside the grid yields 'Out of bounds'; any in-grid non-Empty target
\* (the actor's own cell included, whatever the Stone count or distance)
\* yields 'Cell not empty'; an Empty target with Stone count 0 yields 'no
\* stones' even when it is not adjacent; 'not adjacent' occurs only for an
\* in-grid Empty target with Stone count >= 1.  In each of these cases the
\* counter is unchanged.
C14_PlaceCheckOrder ==
    [][\A p \in PlayerIndices : \A t \in PlaceTargets(p) :
          PlaceStone(p, t[1], t[2]) =>
            LET count == players[p].inventory[0].item_count
                said(message) ==
                    /\ OneAppended(debug_log, debug_log', message)
                    /\ players'[p].inventory[0].item_count = count
            IN  /\ ~InGrid(t[1], t[2]) => said(OutOfBoundsMessage(t[1], t[2]))
                /\ (InGrid(t[1], t[2]) /\ grid[t[2]][t[1]] # "Empty")
                       => said(NotEmptyMessage(t[1], t[2]))
                /\ (InGrid(t[1], t[2]) /\ grid[t[2]][t[1]] = "Empty" /\ count = 0)
                       => said(NoStonesMessage(p))
                /\ LastLogged(debug_log') = NotAdjacentMessage(p, t[1], t[2])
                       => /\ InGrid(t[1], t[2])
                          /\ grid[t[2]][t[1]] = "Empty"
                          /\ count >= 1
                          /\ players'[p].inventory[0].item_count = count]_vars

\* Witness for C14: player 1, holding one stone, asked to place it on its own
\* cell and was told the cell is not empty; the counter is still 1.
C14_Witness ==
    /\ used["place"] = 1
    /\ StoneCount(GameState, 0) = 1
    /\ Len(debug_log) = 2
    /\ debug_log[2] = NotEmptyMessage(players[0].x, players[0].y)

\* The clearance zones of the players ps: the cells of the interior within
\* one step, diagonals included, of a player.
ClearanceZones(ps) ==
    {c \in NoiseCells : \E i \in PlayerIndices : Chebyshev(c, Position(ps, i)) <= 1}

\* What the two threshold tests, A (c \in water) and B (c \in stone), say an
\* interior cell outside the zones holds.
NoiseSays(c, water, stone) ==
    IF c \in water THEN "Water" ELSE IF c \in stone THEN "Stone" ELSE "Empty"

Generated(g, ps, water, stone) ==
    /\ \A c \in NoiseCells \ ClearanceZones(ps) :
          g[c[2]][c[1]] = NoiseSays(c, water, stone)
    /\ \A c \in ClearanceZones(ps) :
          g[c[2]][c[1]] \in {"Empty", "Player1Cell", "Player2Cell"}

\* C15: with the two noise fields taken as arbitrary per-cell booleans A
\* (water noise > 0.4) and B (stone noise > 0.2), generate_map yields for
\* every interior cell outside all players' clearance zones Water iff A,
\* Stone iff B and not A, Empty otherwise (Stone never overwrites Water), and
\* every cell inside a clearance zone is Empty or an actor slot.  Stated of
\* generate_map called in any reachable state with any pair of fields.
C15_GenerateMapFollowsNoise ==
    \A water \in GenWaterFields, stone \in GenStoneFields :
        Generated(generate_map(GameState, water, stone).grid, players, water, stone)

\* Witness for C15: a regeneration with alternating water and stone
\* everywhere, after player 1 moved: outside the zones water and stone
\* alternate (the stone pass skipped the water cells), inside them the
\* water and stone are gone.
C15_Witness ==
    LET water == {c \in NoiseCells : (c[1] + c[2]) % 2 = 0}
    IN  /\ used["regen"] = 1
        /\ Position(players, 0) # Position(NewPlayers, 0)
        /\ grid = generate_map(GameState, water, NoiseCells).grid
        /\ \E c \in NoiseCells \ ClearanceZones(players) :
               c \in water /\ grid[c[2]][c[1]] = "Water"
        /\ \E c \in NoiseCells \ ClearanceZones(players) :
               c \notin water /\ grid[c[2]][c[1]] = "Stone"
        /\ \E c \in ClearanceZones(players) : c \in water /\ grid[c[2]][c[1]] = "Empty"

\* A step that was a move_player or a place_stone call.
MoveOrPlaceStep ==
    \/ used'["move"] = used["move"] + 1
    \/ used'["place"] = used["place"] + 1

\* C16: move_player and place_stone never change the content of a border
\* cell, in any reachable state, states after regenerations included; in
\* particular place_stone never puts a Stone on row 0, row GAME_HEIGHT-1,
\* column 0 or column GAME_WIDTH-1.
C16_BorderUntouchedByMoveAndPlace ==
    [][MoveOrPlaceStep =>
          \A y \in Rows, x \in Cols : Border(x, y) => grid'[y][x] = grid[y][x]]_vars

CellsHolding(g, cell) == {c \in Cols \X Rows : g[c[2]][c[1]] = cell}

\* Stone cells in the grid plus the stones the two players hold.
StoneTotal(g, ps) ==
    Cardinality(CellsHolding(g, "Stone"))
        + ps[0].inventory[0].item_count + ps[1].inventory[0].item_count

\* C17: stone is conserved between regenerations: a move_player or
\* place_stone call by either player leaves the number of Stone cells plus
\* the sum of both Stone counters as it was, and leaves the set of Water
\* cells as it was; hence so does any sequence of them.
C17_StoneConserved ==
    [][MoveOrPlaceStep =>
          /\ StoneTotal(grid', players') = StoneTotal(grid, players)
          /\ CellsHolding(grid', "Water") = CellsHolding(grid, "Water")]_vars

\* Witness for C17: with no regeneration, player 1 collected a stone and put
\* it down on another cell, beside water that is still there.
C17_Witness ==
    /\ used["regen"] = 0
    /\ StoneCount(GameState, 0) = 0
    /\ Len(debug_log) = 2
    /\ debug_log[1] = CollectedMessage(0, 1)
    /\ \E t \in CellsHolding(grid, "Stone") :
          /\ debug_log[2] = PlacedMessage(0, t[1], t[2])
          /\ t # Position(players, 0)
    /\ CellsHolding(grid, "Water") # {}
    /\ CellsHolding(grid, "Stone") # {}

\* The answers place_stone gives player p for target t other than 'Out of
\* bounds' and 'not adjacent'.
KeyPlaceAnswers(p, t) ==
    {PlacedMessage(p, t[1], t[2]), NotEmptyMessage(t[1], t[2]), NoStonesMessage(p)}

\* Everything a key press can have written to the log.
KeyMessages ==
    UNION {KeyPlaceAnswers(p, t) : p \in PlayerIndices, t \in Cols \X Rows}
        \cup {CollectedMessage(p, n) : p \in PlayerIndices, n \in 1..MaxMoves}

Orthogonal(a, b) ==
    \/ a[1] = b[1] /\ (a[2] = b[2] + 1 \/ a[2] = b[2] - 1)
    \/ a[2] = b[2] /\ (a[1] = b[1] + 1 \/ a[1] = b[1] - 1)

\* C18: when commands arrive only as key events, every place_stone target is
\* in-grid and orthogonally adjacent to the acting player, so the 'Out of
\* bounds' and the 'not adjacent' message are never produced: a placement
\* key is answered by success, 'Cell not empty' or 'no stones', and the log
\* never holds anything else.
C18_KeyPlacementsAdjacent ==
    /\ [][\A code \in MovementKeys, modifiers \in KeyModifierSets :
            (HandleInput(code, modifiers) /\ KeyPlaces(code, modifiers)) =>
                LET p == KeyPlayer(code)
                    t == Candidate(p, KeyStep(code))
                IN  /\ InGrid(t[1], t[2])
                    /\ Orthogonal(t, Position(players, p))
                    /\ ~panicked'
                    /\ \E message \in KeyPlaceAnswers(p, t) :
                          OneAppended(debug_log, debug_log', message)]_vars
    /\ [](\A k \in 1..Len(debug_log) : debug_log[k] \in KeyMessages)

\* Witness for C18: player 2 stands beside the right wall and its placement
\* key towards the wall, the in-grid target x + 1 = GAME_WIDTH - 1, was
\* answered with 'Cell not empty'.
C18_Witness ==
    /\ players[1].x = GAME_WIDTH - 2
    /\ used["place"] = 1
    /\ Len(debug_log) >= 1
    /\ LastLogged(debug_log) = NotEmptyMessage(GAME_WIDTH - 1, players[1].y)

====
